---- MODULE Spec2Model ----
(***************************************************************************)
(* The dedup-and-dispatch pipeline of news_core.py: the start of the      *)
(* script, main_loop, run_once_multi, load_seen / save_seen, the sort of  *)
(* the new items, the dispatch of one item send by send, and on their    *)
(* own chunk_text, resolve_canonical, fetch_list, load_config, load_seen, *)
(* send_fulltext and extract_article_text.                                *)
(***************************************************************************)
EXTENDS Integers, Sequences, FiniteSets, TLC

\* ------------------------------------------------------------------ bounds
\* longest item list one adapter call returns
MaxFetch == 3
\* longest text given to chunk_text
MaxLen == 7
\* largest limit given to chunk_text (the smallest is -1)
MaxLimit == 4

\* ------------------------------------------------------- strings and dates
\* Python compares str by code point; the strings of the model, ascending.
StrOrder == <<"a", "b", "c", "e1", "e2", "e3", "e4", "e5", "e6", "e7", "g1", "g2", "x">>

Rank(s) == CHOOSE i \in 1..Len(StrOrder) : StrOrder[i] = s

StrLess(s, t) == Rank(s) < Rank(t)

\* parse_iso's "no datetime"
None == 0

\* datetime.min, in hours since 0001-01-01T00:00 (ordinal 1)
DtMin == 24

\* s[:-1] + "+00:00" for the strings that end with Z
ZSuffix(s) == IF s = "2024-01-01T22:00:00Z" THEN "2024-01-01T22:00:00+00:00" ELSE s

\* datetime.fromisoformat: the wall-clock hours and the UTC offset ("naive"
\* when the string carries none); every other string raises ValueError.
IsoFormats ==
    ("2024-01-01" :> [wall |-> 17733264, offset |-> "naive"]) @@
    ("2024-01-02" :> [wall |-> 17733288, offset |-> "naive"]) @@
    ("2024-01-01T22:00:00+00:00" :> [wall |-> 17733286, offset |-> "+00:00"]) @@
    ("2024-01-02T05:00:00+07:00" :> [wall |-> 17733293, offset |-> "+07:00"])

OffsetHours(o) == IF o = "+07:00" THEN 7 ELSE 0

parse_iso(dt_iso) ==
    IF dt_iso = "" THEN None
    ELSE LET s == ZSuffix(dt_iso)
         IN  IF s \notin DOMAIN IsoFormats THEN None
             ELSE LET dt == IsoFormats[s]
                  IN  IF dt.offset # "naive"
                      THEN dt.wall - OffsetHours(dt.offset)
                      ELSE dt.wall

\* ------------------------------------------------------------------- items
Item(id, title, link, date_iso) ==
    [id |-> id, title |-> title, link |-> link, date_iso |-> date_iso]

parse_dt_key(it) ==
    LET dt == parse_iso(it.date_iso)
    IN  <<IF dt = None THEN DtMin ELSE dt, it.link>>

\* tuple comparison of two sort keys
KeyLess(k1, k2) == k1[1] < k2[1] \/ (k1[1] = k2[1] /\ StrLess(k1[2], k2[2]))

\* sorted(new_items, key=parse_dt_key): a stable sort, so an item goes
\* behind every item already placed whose key is not greater than its own.
InsertByKey(s, x) ==
    LET later == {i \in 1..Len(s) : KeyLess(parse_dt_key(x), parse_dt_key(s[i]))}
        at == IF later = {} THEN Len(s) + 1
              ELSE CHOOSE i \in later : \A j \in later : i <= j
    IN  SubSeq(s, 1, at - 1) \o <<x>> \o SubSeq(s, at, Len(s))

RECURSIVE SortedFrom(_, _)
SortedFrom(done, rest) ==
    IF rest = <<>> THEN done
    ELSE SortedFrom(InsertByKey(done, Head(rest)), Tail(rest))

\* variant: the new items are sent in the order the adapter returned them
unsorted(new_items) == new_items

sorted_by_dt_key(new_items) == SortedFrom(<<>>, new_items)

\* sorted(set(v)) of strings
RECURSIVE SortedStrs(_)
SortedStrs(S) ==
    IF S = {} THEN <<>>
    ELSE LET m == CHOOSE x \in S : \A y \in S : Rank(x) <= Rank(y)
         IN  <<m>> \o SortedStrs(S \ {m})

Range(s) == {s[i] : i \in 1..Len(s)}

\* variant: the seen ids are not filtered out
FilterNothing(items_, ids) == items_

\* [it for it in items if it.id not in sent_ids]
FilterNew(items_, ids) == SelectSeq(items_, LAMBDA it : it.id \notin ids)

\* ------------------------------------------------------------ feeds, fetch
Feed(key, type, resolve, fulltext) ==
    [key |-> key, type |-> type, resolve |-> resolve, fulltext |-> fulltext]

\* load_config without a feeds.yaml: the hard-coded default feeds
load_config ==
    << Feed("bbc_burmese", "bbc", FALSE, FALSE),
       Feed("myanmarnow", "rss", TRUE, TRUE) >>

\* the entries the listing page can carry: id = link
ListPool ==
    { Item("a", "t1", "a", "2024-01-02"),
      Item("b", "t2", "b", "2024-01-01"),
      Item("c", "t3", "c", "") }

\* the entries the RSS document can carry: id = the entry's id
RssPool ==
    { Item("g1", "t4", "x", "Tue, 02 Jan 2024 00:00:00 GMT"),
      Item("g2", "t5", "x", "") }

SeqsUpTo(S, n) == UNION {[1..m -> S] : m \in 0..n}

\* what fetch_list returns: [] on a request error, else the page's entries
fetch_list == SeqsUpTo(ListPool, MaxFetch)

\* what fetch_rss returns: [] on any error, else the document's entries
fetch_rss == SeqsUpTo(RssPool, MaxFetch)

\* most article links on the News Eleven listing page
MaxEleven == 6

\* the article links the listing page can carry, in page order
ElevenListing == <<"e1", "e2", "e3", "e4", "e5", "e6", "e7">>

\* Item(id=link, title=title, link=link, date_text="", date_iso="")
ElevenItem(link) == Item(link, "t", link, "")

\* what fetch_eleven returns: [] on any error, else one item per distinct
\* link of the page (`if link in seen: continue`), in page order
fetch_eleven ==
    { [i \in 1..Cardinality(S) |-> ElevenItem(SortedStrs(S)[i])] :
          S \in SUBSET {ElevenListing[i] : i \in 1..MaxEleven} }

\* the adapter dispatch of run_once_multi: what the feed's adapter returns
FetchItems(f) ==
    IF f.type = "rss" THEN fetch_rss
    ELSE IF f.type = "eleven" THEN fetch_eleven
    ELSE IF f.type = "bbc" THEN fetch_list
    ELSE {<<>>}

\* how many items of an eleven feed are considered
ElevenLatest == 5

\* variant: every item the adapter returned is considered
ConsideredAll(f, out) == out

\* `if items: items = items[:5]` for type eleven; the other types keep
\* what the adapter returned
Considered(f, out) ==
    IF f.type = "eleven" /\ out # <<>>
    THEN SubSeq(out, 1, IF Len(out) < ElevenLatest THEN Len(out) ELSE ElevenLatest)
    ELSE out

\* a feeds.yaml with one feed of type eleven
ElevenConfig == << Feed("eleven", "eleven", FALSE, FALSE) >>

\* ------------------------------------------------------------ seen.json
EmptyDict == [k \in {} |-> <<>>]

\* a missing, empty, truncated or otherwise malformed seen.json
Unreadable == [ok |-> FALSE, data |-> EmptyDict]

Readable(d) == [ok |-> TRUE, data |-> d]

load_seen(f) == IF f.ok THEN f.data ELSE EmptyDict

\* the document save_seen dumps: {k: sorted(set(v))}
SeenDump(mapper) == [k \in DOMAIN mapper |-> SortedStrs(Range(mapper[k]))]

\* seen_map.get(key, [])
Get(mapper, k) == IF k \in DOMAIN mapper THEN mapper[k] ELSE <<>>

\* seen_map[key] = value
Put(mapper, k, v) == [x \in DOMAIN mapper \cup {k} |-> IF x = k THEN v ELSE mapper[x]]

StoredIds(f, k) == Range(Get(load_seen(f), k))

\* -------------------------------------------------------------- chunk_text
\* a text is a sequence of characters
Chars == {"a", "b", " ", "\n"}

\* the characters str.strip() removes
Whitespace == {" ", "\n"}

Texts == UNION {[1..n -> Chars] : n \in 0..MaxLen}

Limits == (-1)..MaxLimit

\* s.split("\n\n"): cut at each "\n\n", scanning from the left
RECURSIVE Split(_)
Split(s) ==
    LET cuts == {i \in 1..(Len(s) - 1) : s[i] = "\n" /\ s[i + 1] = "\n"}
    IN  IF cuts = {} THEN <<s>>
        ELSE LET i == CHOOSE c \in cuts : \A d \in cuts : c <= d
             IN  <<SubSeq(s, 1, i - 1)>> \o Split(SubSeq(s, i + 2, Len(s)))

\* p.strip()
Strip(p) ==
    LET solid == {i \in 1..Len(p) : p[i] \notin Whitespace}
    IN  IF solid = {} THEN <<>>
        ELSE SubSeq(p, CHOOSE i \in solid : \A j \in solid : i <= j,
                       CHOOSE i \in solid : \A j \in solid : i >= j)

\* variant: a paragraph longer than limit is appended whole
SlicesWhole(p, limit) == <<p>>

\* variant: the last slice of a long paragraph is padded to the full width
RECURSIVE SlicesPadded(_, _)
SlicesPadded(p, limit) ==
    IF p = <<>> THEN <<>>
    ELSE IF Len(p) <= limit THEN <<p \o [i \in 1..(limit - Len(p)) |-> " "]>>
    ELSE <<SubSeq(p, 1, limit)>> \o SlicesPadded(SubSeq(p, limit + 1, Len(p)), limit)

\* the while loop over a paragraph longer than limit: p[start:start + limit]
RECURSIVE Slices(_, _)
Slices(p, limit) ==
    IF p = <<>> THEN <<>>
    ELSE IF Len(p) <= limit THEN <<p>>
    ELSE <<SubSeq(p, 1, limit)>> \o Slices(SubSeq(p, limit + 1, Len(p)), limit)

\* variant: a paragraph is put into the segment without its separator
RECURSIVE ChunkLoopGlued(_, _, _, _)
ChunkLoopGlued(paras, chunks_, cur, limit) ==
    IF paras = <<>> THEN [chunks |-> chunks_, cur |-> cur]
    ELSE LET p == Strip(Head(paras))
             rest == Tail(paras)
             flushed == IF cur # <<>> THEN Append(chunks_, cur) ELSE chunks_
             candidate == Strip(cur \o p)
         IN  IF p = <<>> THEN ChunkLoopGlued(rest, chunks_, cur, limit)
             ELSE IF Len(p) > limit
                  THEN ChunkLoopGlued(rest, flushed \o Slices(p, limit), <<>>, limit)
             ELSE IF Len(candidate) <= limit
                  THEN ChunkLoopGlued(rest, chunks_, candidate, limit)
             ELSE ChunkLoopGlued(rest, flushed, p, limit)

\* the body of `for p in paras`, from the paragraphs left, the chunks so
\* far and cur
RECURSIVE ChunkLoop(_, _, _, _)
ChunkLoop(paras, chunks_, cur, limit) ==
    IF paras = <<>> THEN [chunks |-> chunks_, cur |-> cur]
    ELSE LET p == Strip(Head(paras))
             rest == Tail(paras)
             flushed == IF cur # <<>> THEN Append(chunks_, cur) ELSE chunks_
             candidate == Strip(cur \o (IF cur # <<>> THEN <<"\n", "\n">> ELSE <<>>) \o p)
         IN  IF p = <<>> THEN ChunkLoop(rest, chunks_, cur, limit)
             ELSE IF Len(p) > limit
                  THEN ChunkLoop(rest, flushed \o Slices(p, limit), <<>>, limit)
             ELSE IF Len(candidate) <= limit
                  THEN ChunkLoop(rest, chunks_, candidate, limit)
             ELSE ChunkLoop(rest, flushed, p, limit)

\* variant: without a limit the text is returned stripped
chunk_text_stripped(s, limit) ==
    IF limit <= 0 THEN <<Strip(s)>>
    ELSE IF Len(s) <= limit THEN <<s>>
    ELSE LET r == ChunkLoop(Split(s), <<>>, <<>>, limit)
         IN  IF r.cur # <<>> THEN Append(r.chunks, r.cur) ELSE r.chunks

\* variant: the segment under construction when the loop ends is dropped
chunk_text_unflushed(s, limit) ==
    IF limit <= 0 THEN <<s>>
    ELSE IF Len(s) <= limit THEN <<s>>
    ELSE ChunkLoop(Split(s), <<>>, <<>>, limit).chunks

chunk_text(s, limit) ==
    IF limit <= 0 THEN <<s>>
    ELSE IF Len(s) <= limit THEN <<s>>
    ELSE LET r == ChunkLoop(Split(s), <<>>, <<>>, limit)
         IN  IF r.cur # <<>> THEN Append(r.chunks, r.cur) ELSE r.chunks

\* ------------------------------------------------------- resolve_canonical
\* most tags in a page given to resolve_canonical
MaxTags == 3

\* a URL or URL reference: its origin ("" for a relative reference) and the
\* segments of its path
Url(origin, path) == [origin |-> origin, path |-> path]

\* the empty string as a URL reference
EmptyUrl == Url("", <<>>)

\* urllib.parse.urljoin for absolute, empty and absolute-path references
urljoin(base, ref) ==
    IF ref.origin # "" THEN ref
    ELSE IF ref.path = <<>> THEN base
    ELSE Url(base.origin, ref.path)

\* a bs4 Tag: its name and its attributes
Tag(name, attrs) == [name |-> name, attrs |-> attrs]

\* soup.find found nothing
NoTag == Tag("", <<>>)

has_attr(tag, a) == a \in DOMAIN tag.attrs

\* rel=lambda v: v and "canonical" in str(v).lower(): the rel values of the
\* model for which it holds
CanonicalRel == {"canonical", "Canonical"}

\* property=lambda v: v and v.lower() == "og:url": the property values of
\* the model for which it holds
OgUrlProperty == {"og:url", "OG:URL"}

\* soup.find(name, attr=match): the first tag in document order with that
\* name whose attribute has a value that matches (an absent attribute does not)
find(soup, name, a, matching) ==
    LET hits == {i \in 1..Len(soup) :
                    /\ soup[i].name = name
                    /\ has_attr(soup[i], a)
                    /\ soup[i].attrs[a] \in matching}
    IN  IF hits = {} THEN NoTag
        ELSE soup[CHOOSE i \in hits : \A j \in hits : i <= j]

\* the tags the pages of the model are made of
PageTags ==
    { Tag("link", [rel |-> "canonical", href |-> Url("https://n.example", <<"c">>)]),
      Tag("link", [rel |-> "Canonical", href |-> Url("", <<"c2">>)]),
      Tag("link", [rel |-> "canonical"]),
      Tag("link", [rel |-> "stylesheet", href |-> Url("https://n.example", <<"s.css">>)]),
      Tag("meta", [property |-> "og:url", content |-> Url("https://n.example", <<"g">>)]),
      Tag("meta", [property |-> "OG:URL"]),
      Tag("meta", [property |-> "og:title", content |-> Url("", <<"t">>)]) }

\* requests.get(...) and raise_for_status(): an exception, or the response
\* with its final URL and parsed page
Responses ==
    {[ok |-> FALSE, url |-> EmptyUrl, soup |-> <<>>]} \cup
    [ok : {TRUE},
     url : {Url("https://n.example", <<"a">>), Url("https://m.example", <<"b">>), EmptyUrl},
     soup : SeqsUpTo(PageTags, MaxTags)]

\* the url given to resolve_canonical
TrackedUrl == Url("https://t.example", <<"r">>)

resolve_canonical(url, r) ==
    IF ~r.ok THEN url
    ELSE LET final == IF r.url # EmptyUrl THEN r.url ELSE url
             link == find(r.soup, "link", "rel", CanonicalRel)
             meta == find(r.soup, "meta", "property", OgUrlProperty)
         IN  IF link # NoTag /\ has_attr(link, "href")
             THEN urljoin(final, link.attrs.href)
             ELSE IF meta # NoTag /\ has_attr(meta, "content")
                  THEN urljoin(final, meta.attrs.content)
             ELSE final

\* ------------------------------------------------- fetch_list on one page
\* most <li> entries in the listing
MaxLis == 2

\* a title is the sequence of its words
LIST_URL == Url("https://www.bbc.com", <<"burmese.lite">>)

\* str.lower() on the words of the model
Lower(w) == IF w \in {"Live", "LIVE", "live"} THEN "live" ELSE w

\* the Burmese spelling of "live (broadcast)", U+1010 U+102D U+102F U+1000
\* U+103A U+101B U+102D U+102F U+1000 U+103A, in Latin letters
BurmeseLive == "taik-yaik"

\* LIVE_PAT.search(raw): \blive\b with re.I
LIVE_PAT(raw) == \E i \in 1..Len(raw) : Lower(raw[i]) = "live"

\* "/live/" in link.lower()
LivePath(link) ==
    \E i \in 1..(Len(link.path) - 1) : Lower(link.path[i]) = "live"

\* one <li> of the listing: whether it has an <h3>, the h3's text without
\* the hidden spans, the href of its <a>, whether the h3 holds svg.first-promo
Li(h3, title, href, promo) == [h3 |-> h3, title |-> title, href |-> href, promo |-> promo]

ArticleHref(id) == Url("", <<"burmese", "articles", id>>)

ListEntries ==
    { Li(TRUE, <<"flood", "news">>, ArticleHref("c1"), FALSE),
      Li(TRUE, <<"Live", "flood">>, ArticleHref("c2"), FALSE),
      Li(TRUE, <<"LIVE">>, ArticleHref("c3"), FALSE),
      Li(TRUE, <<"alive", "again">>, ArticleHref("c4"), FALSE),
      Li(TRUE, <<BurmeseLive, "flood">>, ArticleHref("c5"), FALSE),
      Li(TRUE, <<"rain", "news">>, Url("", <<"burmese", "LIVE", "c6">>), FALSE),
      Li(TRUE, <<"storm", "news">>, ArticleHref("c7"), TRUE),
      Li(TRUE, <<>>, ArticleHref("c8"), FALSE),
      Li(TRUE, <<"no", "link">>, EmptyUrl, FALSE),
      Li(FALSE, <<>>, ArticleHref("c9"), FALSE) }

\* requests.get(LIST_URL): a RequestException, a page without the <ul>, or
\* the <li> entries of the <ul>
ListResponses ==
    {[ok |-> FALSE, ul |-> FALSE, lis |-> <<>>], [ok |-> TRUE, ul |-> FALSE, lis |-> <<>>]} \cup
    [ok : {TRUE}, ul : {TRUE}, lis : SeqsUpTo(ListEntries, MaxLis)]

\* link = urljoin(LIST_URL, href) if href else ""
LinkOf(li) == IF li.href # EmptyUrl THEN urljoin(LIST_URL, li.href) ELSE EmptyUrl

\* the body of `for li in ul.select("li")`: out after the entries of lis
RECURSIVE ListLoop(_, _)
ListLoop(lis, out) ==
    IF lis = <<>> THEN out
    ELSE LET li == Head(lis)
             link == LinkOf(li)
         IN  IF ~li.h3 THEN ListLoop(Tail(lis), out)
             ELSE IF li.title = <<>> \/ link = EmptyUrl THEN ListLoop(Tail(lis), out)
             ELSE IF LivePath(link) \/ LIVE_PAT(li.title) \/ li.promo
                  THEN ListLoop(Tail(lis), out)
             ELSE ListLoop(Tail(lis), Append(out, Item(link, li.title, link, "")))

\* fetch_list on the response r
fetch_list_page(r) ==
    IF ~r.ok THEN <<>>
    ELSE IF ~r.ul THEN <<>>
    ELSE ListLoop(r.lis, <<>>)

\* ------------------------------------------------ load_config on feeds.yaml
\* most entries under `feeds` in feeds.yaml
MaxEntries == 3

\* split_len of Feed when the entry gives none
DefaultSplitLen == 3500

\* int(x) on the split_len values of the model; any other value raises ValueError
IntOf == ("100" :> 100)

\* one entry under `feeds`: whether it is a mapping, and its key, url and
\* split_len members ("" for a member that is absent)
Entry(mapping, key, url, split_len) ==
    [mapping |-> mapping, key |-> key, url |-> url, split_len |-> split_len]

ConfigEntries ==
    { Entry(TRUE, "A", "u1", ""),
      Entry(TRUE, "B", "u2", "100"),
      Entry(FALSE, "", "", ""),
      Entry(TRUE, "U", "", ""),
      Entry(TRUE, "S", "u3", "abc"),
      Entry(TRUE, "A", "u4", ""),
      Entry(TRUE, "", "u1", "") }

\* the Feed that load_config appends for an entry; its key is
\* str(ent.get("key") or ent.get("name") or ent.get("url") or "feed")
FeedOf(ent) ==
    [key |-> IF ent.key # "" THEN ent.key ELSE IF ent.url # "" THEN ent.url ELSE "feed",
     type |-> "rss", url |-> ent.url, resolve |-> FALSE,
     fulltext |-> FALSE,
     split_len |-> IF ent.split_len = "" THEN DefaultSplitLen ELSE IntOf[ent.split_len]]

\* `for ent in entries` inside the try: feeds as the loop, or the exception
\* that ended it, left it
RECURSIVE ConfigLoop(_, _)
ConfigLoop(entries, out) ==
    IF entries = <<>> THEN out
    ELSE LET ent == Head(entries)
         IN  IF ~ent.mapping THEN ConfigLoop(Tail(entries), out)
             ELSE IF ent.split_len # "" /\ ent.split_len \notin DOMAIN IntOf THEN out
             ELSE IF ent.url = "" THEN ConfigLoop(Tail(entries), out)
             ELSE ConfigLoop(Tail(entries), Append(out, FeedOf(ent)))

\* load_config on a feeds.yaml with these entries
load_config_yaml(entries) ==
    LET out == ConfigLoop(entries, <<>>)
    IN  IF out # <<>> THEN out ELSE load_config

\* ----------------------------------------------------------- send_fulltext
\* longest article body given to send_fulltext
MaxBody == 4

\* html.escape on the characters of the model
EscapeChar(c) ==
    IF c = "&" THEN <<"&", "a", "m", "p", ";">>
    ELSE IF c = "<" THEN <<"&", "l", "t", ";">>
    ELSE <<c>>

RECURSIVE escape(_)
escape(s) == IF s = <<>> THEN <<>> ELSE EscapeChar(Head(s)) \o escape(Tail(s))

\* f"<b>{escape(it.title)}</b>\nDate: {date_str}\n\n{link}"
Header(title, date_str, link) ==
    <<"<", "b", ">">> \o escape(title) \o
    <<"<", "/", "b", ">", "\n", "D", "a", "t", "e", ":", " ">> \o date_str \o
    <<"\n", "\n">> \o link

\* an article of two paragraphs, longer than a header with its first paragraph
LongBody == <<"a", "\n", "\n">> \o [i \in 1..22 |-> "a"]

\* the article bodies extract_article_text returns: "" when the extraction
\* failed or found nothing, every short text, and LongBody
Bodies == UNION {[1..n -> {"a", "&", "\n"}] : n \in 0..MaxBody} \cup {LongBody}

\* the split_len values of the feeds of the model
SplitLens == {0, 2, 3, 24}

\* escape(chunks[i]) for i from start on
RestEscaped(chunks_, start) ==
    [i \in 1..(Len(chunks_) - start + 1) |-> escape(chunks_[start + i - 1])]

\* variant: start_idx stays 0 after the joined first message
send_fulltext_from_zero(header, body, split_len) ==
    IF body = <<>> THEN <<header>>
    ELSE LET chunks_ == chunk_text(body, split_len)
         IN  IF chunks_ = <<>> THEN <<header>>
             ELSE LET first_candidate == header \o <<"\n", "\n">> \o escape(chunks_[1])
                  IN  IF Len(first_candidate) <= split_len
                      THEN <<first_candidate>> \o RestEscaped(chunks_, 1)
                      ELSE <<header>> \o RestEscaped(chunks_, 1)

\* the texts send_fulltext gives to bot.send_message, in order, when no send raises
send_fulltext(header, body, split_len) ==
    IF body = <<>> THEN <<header>>
    ELSE LET chunks_ == chunk_text(body, split_len)
         IN  IF chunks_ = <<>> THEN <<header>>
             ELSE LET first_candidate == header \o <<"\n", "\n">> \o escape(chunks_[1])
                  IN  IF Len(first_candidate) <= split_len
                      THEN <<first_candidate>> \o RestEscaped(chunks_, 2)
                      ELSE <<header>> \o RestEscaped(chunks_, 1)

\* ------------------------------------------ the documents load_seen reads
\* most ids in one list of a seen.json document
MaxIds == 2

\* what json.load returns: a list of ids, an object, a scalar; or it raises
\* (a missing, empty or malformed file)
JList(ids) == [t |-> "list", ids |-> ids, map |-> EmptyDict]

JDict(m) == [t |-> "dict", ids |-> <<>>, map |-> m]

JNum == [t |-> "num", ids |-> <<>>, map |-> EmptyDict]

JError == [t |-> "error", ids |-> <<>>, map |-> EmptyDict]

IdLists == SeqsUpTo({"a", "b"}, MaxIds)

\* the buckets of a document: a value per feed key, a list of ids or not
Buckets ==
    UNION {[ks -> {JList(l) : l \in IdLists} \cup {JNum}] :
               ks \in SUBSET {"bbc_burmese", "myanmarnow"}}

\* the shapes of seen.json: unreadable, a scalar, the legacy bare array, the
\* flat object, the object with a "feeds" wrapper (an object or not)
SeenDocuments ==
    {JError, JNum}
        \cup {JList(l) : l \in IdLists}
        \cup {JDict(m) : m \in Buckets}
        \cup {JDict([k \in {"feeds"} |-> JDict(m)]) : m \in Buckets}
        \cup {JDict([k \in {"feeds"} |-> JList(l)]) : l \in IdLists}

\* {str(k): [str(i) for i in v] for k, v in data.items() if isinstance(v, list)}
FlatBuckets(m) ==
    [k \in {x \in DOMAIN m : m[x].t = "list"} |-> m[k].ids]

\* load_seen on the document data: `[str(i) for i in v]` raises on a number,
\* and every exception ends in `return {}`
load_seen_document(data) ==
    IF data.t = "dict"
    THEN IF "feeds" \in DOMAIN data.map /\ data.map["feeds"].t = "dict"
         THEN LET inner == data.map["feeds"].map
              IN  IF \E k \in DOMAIN inner : inner[k].t = "num"
                  THEN EmptyDict
                  ELSE [k \in DOMAIN inner |-> inner[k].ids]
         ELSE FlatBuckets(data.map)
    ELSE EmptyDict

\* ---------------------------------------------------- extract_article_text
\* most p and li elements under the main node of an article page
MaxEls == 3

\* a p or li element and el.get_text(" ", strip=True)
El(name, t) == [name |-> name, text |-> t]

PageEls ==
    {El(n, t) : n \in {"p", "li"}, t \in {<<>>, <<"a">>, <<"b", " ", "b">>}}

\* the article page: whether the request succeeded, whether a main node
\* was found, and node.find_all(["p", "li"]) in document order
ArticlePages ==
    {[ok |-> FALSE, main |-> FALSE, els |-> <<>>], [ok |-> TRUE, main |-> FALSE, els |-> <<>>]}
        \cup {[ok |-> TRUE, main |-> TRUE, els |-> e] : e \in SeqsUpTo(PageEls, MaxEls)}

\* "• " (U+2022 and a space)
Bullet == <<"*", " ">>

\* `for el in node.find_all(["p", "li"])`: the parts
RECURSIVE Parts(_)
Parts(els) ==
    IF els = <<>> THEN <<>>
    ELSE LET el == Head(els)
         IN  IF el.text = <<>> THEN Parts(Tail(els))
             ELSE <<IF el.name = "li" THEN Bullet \o el.text ELSE el.text>> \o Parts(Tail(els))

\* sep.join(parts)
RECURSIVE Join(_, _)
Join(parts, sep) ==
    IF parts = <<>> THEN <<>>
    ELSE IF Len(parts) = 1 THEN parts[1]
    ELSE parts[1] \o sep \o Join(Tail(parts), sep)

\* s without its leading whitespace
RECURSIVE LStrip(_)
LStrip(s) == IF s # <<>> /\ Head(s) \in Whitespace THEN LStrip(Tail(s)) ELSE s

\* the leading whitespace of s
LeadingWs(s) == SubSeq(s, 1, Len(s) - Len(LStrip(s)))

\* re.sub(r"\s+", " ", txt)
RECURSIVE CollapseWs(_)
CollapseWs(s) ==
    IF s = <<>> THEN <<>>
    ELSE IF Head(s) \in Whitespace THEN <<" ">> \o CollapseWs(LStrip(s))
    ELSE <<Head(s)>> \o CollapseWs(Tail(s))

\* re.sub(r"(\s*\n\s*)+", "\n\n", txt): a run of whitespace with a newline
\* in it becomes "\n\n", a run without one is kept
RECURSIVE NormalizeNewlines(_)
NormalizeNewlines(s) ==
    IF s = <<>> THEN <<>>
    ELSE IF Head(s) \in Whitespace
         THEN (IF "\n" \in Range(LeadingWs(s)) THEN <<"\n", "\n">> ELSE LeadingWs(s))
                  \o NormalizeNewlines(LStrip(s))
    ELSE <<Head(s)>> \o NormalizeNewlines(Tail(s))

\* extract_article_text on the page fetched for the link
extract_article_text(page) ==
    IF ~page.ok \/ ~page.main THEN <<>>
    ELSE Strip(NormalizeNewlines(CollapseWs(Join(Parts(page.els), <<"\n", "\n">>))))

\* --------------------------------------------------------------- the state
VARIABLES
    pc,               \* where main_loop / run_once_multi stands
    file,             \* seen.json
    seen_map,         \* run_once_multi's seen_map
    fi,               \* index in feeds of the feed being processed
    config,           \* the feeds load_config returns (feeds.yaml stays as it is)
    items,            \* the items fetched for the current feed
    adapter_out,      \* history: what the adapter returned for the current feed
    sent_ids,         \* the current batch's sent_ids
    new_items_sorted, \* the current batch's new_items_sorted
    sent,             \* the items handed to the sink in the current batch, in order
    fileAtStart,      \* history: seen.json as the current pass found it
    attempted,        \* history: indices of the feeds fetched in this pass
    fetchFailed,      \* history: indices of the feeds whose fetch failed in this pass
    old_ids,          \* history: the store set of the feed's key as its batch started
    failedNow,        \* history: <<key, id>> of the first send that raised, while its pass lasts
    failedBefore,     \* history: <<key, id>> of the first send that raised, once its pass is over
    doneBefore,       \* history: one <<key, id>> sent in a batch that was over when the process was first stopped
    text,             \* chunk_text's s
    limit,            \* chunk_text's limit
    chunks,           \* what chunk_text returned
    called,           \* chunk_text has returned
    env,              \* os.environ after load_dotenv: BOT_TOKEN and CHAT_ID
    arg,              \* the arguments of the one call of a function under study
    ret               \* what that call returned

vars == <<pc, file, seen_map, fi, config, items, adapter_out, sent_ids, new_items_sorted, sent,
          fileAtStart, attempted, fetchFailed, old_ids, failedNow, failedBefore,
          doneBefore, text, limit, chunks, called, env, arg, ret>>

pipeline == <<pc, file, seen_map, fi, config, items, adapter_out, sent_ids, new_items_sorted, sent,
              fileAtStart, attempted, fetchFailed, old_ids, failedNow, failedBefore,
              doneBefore>>

chunking == <<text, limit, chunks, called>>

\* one call of a function on its own
calling == <<arg, ret>>

\* what a pass of run_once_multi does not write
apart == <<chunking, env, calling, config>>

feeds == config

\* "no <<key, id>>" of the history variables
NoOne == <<>>

\* no pass has run yet, and seen.json does not exist
NoPass ==
    /\ file = Unreadable
    /\ seen_map = EmptyDict
    /\ fi = 1
    /\ items = <<>>
    /\ adapter_out = <<>>
    /\ sent_ids = {}
    /\ new_items_sorted = <<>>
    /\ sent = <<>>
    /\ fileAtStart = Unreadable
    /\ attempted = {}
    /\ fetchFailed = {}
    /\ old_ids = {}
    /\ failedNow = NoOne
    /\ failedBefore = NoOne
    /\ doneBefore = NoOne

\* the process has started: main_loop is about to run its first pass, and
\* seen.json does not exist yet
PipelineInit ==
    /\ pc = "run"
    /\ config = load_config
    /\ NoPass

NoCall ==
    /\ text = <<>>
    /\ limit = 0
    /\ chunks = <<>>
    /\ called = FALSE

\* no function is called on its own
NoArg ==
    /\ arg = <<>>
    /\ ret = <<>>

\* os.environ with BOT_TOKEN and CHAT_ID set
FullEnv == [BOT_TOKEN |-> "token", CHAT_ID |-> "chat"]

\* BOT_TOKEN and CHAT_ID as _load_env found them
EnvSet == env = FullEnv

Init == PipelineInit /\ NoCall /\ NoArg /\ EnvSet

NoBatch ==
    /\ items' = <<>>
    /\ adapter_out' = <<>>
    /\ sent_ids' = {}
    /\ new_items_sorted' = <<>>
    /\ sent' = <<>>
    /\ old_ids' = {}

\* run_once_multi up to the for loop: load_config, load_seen, the bot session opens
StartPass ==
    /\ UNCHANGED apart
    /\ pc = "run"
    /\ seen_map' = load_seen(file)
    /\ fileAtStart' = file
    /\ fi' = 1
    /\ pc' = "feed"
    /\ UNCHANGED <<file, items, adapter_out, sent_ids, new_items_sorted, sent, attempted,
                   fetchFailed, old_ids, failedNow, failedBefore, doneBefore>>

\* `async with Bot(token=token)` raises: nothing in run_once_multi or
\* main_loop catches it, so main_loop ends with the error
StartPassBotError ==
    /\ UNCHANGED apart
    /\ pc = "run"
    /\ seen_map' = load_seen(file)
    /\ fileAtStart' = file
    /\ pc' = "dead"
    /\ UNCHANGED <<file, fi, items, adapter_out, sent_ids, new_items_sorted, sent, attempted,
                   fetchFailed, old_ids, failedNow, failedBefore, doneBefore>>

\* variant: a batch without new items still reaches the save
FetchFeedAlwaysSaves ==
    /\ UNCHANGED apart
    /\ pc = "feed"
    /\ fi <= Len(feeds)
    /\ \E out \in FetchItems(feeds[fi]) :
        LET fetched == Considered(feeds[fi], out)
            ids == Range(Get(seen_map, feeds[fi].key))
            new_items == FilterNew(fetched, ids)
        IN  /\ attempted' = attempted \cup {fi}
            /\ fetchFailed' = IF fetched = <<>> THEN fetchFailed \cup {fi} ELSE fetchFailed
            /\ items' = fetched
            /\ adapter_out' = out
            /\ sent' = <<>>
            /\ old_ids' = ids
            /\ IF fetched = <<>>
               THEN /\ fi' = fi + 1
                    /\ pc' = "feed"
                    /\ sent_ids' = {}
                    /\ new_items_sorted' = <<>>
               ELSE /\ fi' = fi
                    /\ pc' = "send"
                    /\ sent_ids' = ids
                    /\ new_items_sorted' = sorted_by_dt_key(new_items)
    /\ UNCHANGED <<file, seen_map, fileAtStart, failedNow, failedBefore, doneBefore>>

\* one iteration of `for f in feeds` up to the send loop
FetchFeed ==
    /\ UNCHANGED apart
    /\ pc = "feed"
    /\ fi <= Len(feeds)
    /\ \E out \in FetchItems(feeds[fi]) :
        LET fetched == Considered(feeds[fi], out)
            ids == Range(Get(seen_map, feeds[fi].key))
            new_items == FilterNew(fetched, ids)
        IN  /\ attempted' = attempted \cup {fi}
            /\ fetchFailed' = IF fetched = <<>> THEN fetchFailed \cup {fi} ELSE fetchFailed
            /\ items' = fetched
            /\ adapter_out' = out
            /\ sent' = <<>>
            /\ old_ids' = ids
            /\ IF fetched = <<>> \/ new_items = <<>>
               THEN /\ fi' = fi + 1
                    /\ pc' = "feed"
                    /\ sent_ids' = {}
                    /\ new_items_sorted' = <<>>
               ELSE /\ fi' = fi
                    /\ pc' = "send"
                    /\ sent_ids' = ids
                    /\ new_items_sorted' = sorted_by_dt_key(new_items)
    /\ UNCHANGED <<file, seen_map, fileAtStart, failedNow, failedBefore, doneBefore>>

\* variant: a fetch that raises ends the for loop
FetchRaisesAborts ==
    /\ UNCHANGED apart
    /\ pc = "feed"
    /\ fi <= Len(feeds)
    /\ attempted' = attempted \cup {fi}
    /\ fetchFailed' = fetchFailed \cup {fi}
    /\ items' = <<>>
    /\ adapter_out' = <<>>
    /\ sent' = <<>>
    /\ old_ids' = Range(Get(seen_map, feeds[fi].key))
    /\ sent_ids' = {}
    /\ new_items_sorted' = <<>>
    /\ fi' = Len(feeds) + 1
    /\ pc' = "feed"
    /\ UNCHANGED <<file, seen_map, fileAtStart, failedNow, failedBefore, doneBefore>>

\* the fetch raises inside the try: logged, `continue`
FetchRaises ==
    /\ UNCHANGED apart
    /\ pc = "feed"
    /\ fi <= Len(feeds)
    /\ attempted' = attempted \cup {fi}
    /\ fetchFailed' = fetchFailed \cup {fi}
    /\ items' = <<>>
    /\ adapter_out' = <<>>
    /\ sent' = <<>>
    /\ old_ids' = Range(Get(seen_map, feeds[fi].key))
    /\ sent_ids' = {}
    /\ new_items_sorted' = <<>>
    /\ fi' = fi + 1
    /\ pc' = "feed"
    /\ UNCHANGED <<file, seen_map, fileAtStart, failedNow, failedBefore, doneBefore>>

\* one iteration of `for it in new_items_sorted`: send_item / send_fulltext
\* returns (ok) or raises, which is logged; either way sent_ids.add(it.id)
SendItem(ok) ==
    /\ UNCHANGED apart
    /\ pc = "send"
    /\ Len(sent) < Len(new_items_sorted)
    /\ LET it == new_items_sorted[Len(sent) + 1]
       IN  /\ sent' = Append(sent, it)
           /\ sent_ids' = sent_ids \cup {it.id}
           /\ failedNow' = IF ok \/ failedNow # NoOne \/ failedBefore # NoOne
                           THEN failedNow
                           ELSE <<feeds[fi].key, it.id>>
    /\ UNCHANGED <<pc, file, seen_map, fi, items, adapter_out, new_items_sorted, fileAtStart,
                   attempted, fetchFailed, old_ids, failedBefore, doneBefore>>

\* seen_map[key] = sorted(sent_ids); save_seen opens seen.json for writing,
\* which truncates it
SaveOpen ==
    /\ UNCHANGED apart
    /\ pc = "send"
    /\ Len(sent) = Len(new_items_sorted)
    /\ seen_map' = Put(seen_map, feeds[fi].key, SortedStrs(sent_ids))
    /\ file' = Unreadable
    /\ pc' = "saving"
    /\ UNCHANGED <<fi, items, adapter_out, sent_ids, new_items_sorted, sent, fileAtStart,
                   attempted, fetchFailed, old_ids, failedNow, failedBefore, doneBefore>>

\* variant: after a failed save the loop moves to the next feed although
\* items of the batch are still unsent
SaveOpenFailsEarly ==
    /\ UNCHANGED apart
    /\ pc = "send"
    /\ seen_map' = Put(seen_map, feeds[fi].key, SortedStrs(sent_ids))
    /\ fi' = fi + 1
    /\ pc' = "feed"
    /\ UNCHANGED <<file, items, adapter_out, sent_ids, new_items_sorted, sent, fileAtStart,
                   attempted, fetchFailed, old_ids, failedNow, failedBefore, doneBefore>>

\* seen_map[key] = sorted(sent_ids); save_seen's open raises: logged, the
\* file is as it was, the loop goes on
SaveOpenFails ==
    /\ UNCHANGED apart
    /\ pc = "send"
    /\ Len(sent) = Len(new_items_sorted)
    /\ seen_map' = Put(seen_map, feeds[fi].key, SortedStrs(sent_ids))
    /\ fi' = fi + 1
    /\ pc' = "feed"
    /\ UNCHANGED <<file, items, adapter_out, sent_ids, new_items_sorted, sent, fileAtStart,
                   attempted, fetchFailed, old_ids, failedNow, failedBefore, doneBefore>>

\* json.dump writes the whole document
SaveWrite ==
    /\ UNCHANGED apart
    /\ pc = "saving"
    /\ file' = Readable(SeenDump(seen_map))
    /\ fi' = fi + 1
    /\ pc' = "feed"
    /\ UNCHANGED <<seen_map, items, adapter_out, sent_ids, new_items_sorted, sent, fileAtStart,
                   attempted, fetchFailed, old_ids, failedNow, failedBefore, doneBefore>>

\* json.dump raises part-way: logged, the file keeps what was written so far
SaveWriteFails ==
    /\ UNCHANGED apart
    /\ pc = "saving"
    /\ file' = Unreadable
    /\ fi' = fi + 1
    /\ pc' = "feed"
    /\ UNCHANGED <<seen_map, items, adapter_out, sent_ids, new_items_sorted, sent, fileAtStart,
                   attempted, fetchFailed, old_ids, failedNow, failedBefore, doneBefore>>

\* the for loop is over: run_once_multi returns (its locals are gone),
\* main_loop sleeps POLL_SEC
EndPass ==
    /\ UNCHANGED apart
    /\ pc = "feed"
    /\ fi > Len(feeds)
    /\ pc' = "sleep"
    /\ seen_map' = EmptyDict
    /\ fi' = 1
    /\ fileAtStart' = Unreadable
    /\ attempted' = {}
    /\ fetchFailed' = {}
    /\ failedBefore' = IF failedBefore = NoOne THEN failedNow ELSE failedBefore
    /\ failedNow' = NoOne
    /\ NoBatch
    /\ UNCHANGED <<file, doneBefore>>

\* asyncio.sleep(POLL_SEC) returns: `while True` starts the next pass
Wake ==
    /\ UNCHANGED apart
    /\ pc = "sleep"
    /\ pc' = "run"
    /\ UNCHANGED <<file, seen_map, fi, items, adapter_out, sent_ids, new_items_sorted, sent,
                   fileAtStart, attempted, fetchFailed, old_ids, failedNow,
                   failedBefore, doneBefore>>

Next ==
    \/ StartPass
    \/ StartPassBotError
    \/ FetchFeed
    \/ FetchRaises
    \/ SendItem(TRUE)
    \/ SendItem(FALSE)
    \/ SaveOpen
    \/ SaveOpenFails
    \/ SaveWrite
    \/ SaveWriteFails
    \/ EndPass
    \/ Wake

Spec == Init /\ [][Next]_vars

\* the passes over a feeds.yaml with one feed of type eleven, when sends,
\* fetches and writes of seen.json all succeed
ElevenInit ==
    /\ pc = "run"
    /\ config = ElevenConfig
    /\ NoPass
    /\ NoCall
    /\ NoArg
    /\ EnvSet

NextEleven ==
    \/ StartPass
    \/ FetchFeed
    \/ SendItem(TRUE)
    \/ SaveOpen
    \/ SaveWrite
    \/ EndPass
    \/ Wake

SpecEleven == ElevenInit /\ [][NextEleven]_vars

\* <<key, id>> of the items sent in the batches of this pass that are over:
\* what the feeds before fi added to seen_map
DoneInPass ==
    {d \in UNION {{<<feeds[i].key, id>> : id \in Range(Get(seen_map, feeds[i].key))} :
                  i \in 1..(fi - 1)} :
        d[2] \notin StoredIds(fileAtStart, d[1])}

\* the process is stopped from outside at any point of a pass and started
\* again: everything but seen.json is lost
Crash ==
    /\ UNCHANGED apart
    /\ pc \in {"feed", "send", "saving"}
    /\ pc' = "run"
    /\ \E d \in (IF doneBefore = NoOne THEN DoneInPass ELSE {}) \cup {doneBefore} :
          doneBefore' = d
    /\ seen_map' = EmptyDict
    /\ fi' = 1
    /\ fileAtStart' = Unreadable
    /\ attempted' = {}
    /\ fetchFailed' = {}
    /\ failedBefore' = IF failedBefore = NoOne THEN failedNow ELSE failedBefore
    /\ failedNow' = NoOne
    /\ NoBatch
    /\ UNCHANGED file

\* the passes of a process whose sends, fetches and writes of seen.json all
\* succeed, and that may be stopped and started again
NextCrash ==
    \/ StartPass
    \/ FetchFeed
    \/ SendItem(TRUE)
    \/ SaveOpen
    \/ SaveWrite
    \/ EndPass
    \/ Wake
    \/ Crash

SpecCrash == Init /\ [][NextCrash]_vars

\* one call of chunk_text on any text and limit
ChunkInit ==
    /\ PipelineInit
    /\ NoArg
    /\ EnvSet
    /\ text \in Texts
    /\ limit \in Limits
    /\ chunks = <<>>
    /\ called = FALSE

ChunkText ==
    /\ ~called
    /\ chunks' = chunk_text(text, limit)
    /\ called' = TRUE
    /\ UNCHANGED <<text, limit, env, calling>>
    /\ UNCHANGED pipeline

SpecChunk == ChunkInit /\ [][ChunkText]_vars

\* one call of resolve_canonical on any response
ResolveInit ==
    /\ PipelineInit
    /\ NoCall
    /\ EnvSet
    /\ arg \in [url : {TrackedUrl}, r : Responses]
    /\ ret = <<>>

ResolveCanonical ==
    /\ ret = <<>>
    /\ ret' = [value |-> resolve_canonical(arg.url, arg.r)]
    /\ UNCHANGED <<arg, env, chunking, pipeline>>

SpecResolve == ResolveInit /\ [][ResolveCanonical]_vars

\* one call of fetch_list on any response
ListInit ==
    /\ PipelineInit
    /\ NoCall
    /\ EnvSet
    /\ arg \in ListResponses
    /\ ret = <<>>

FetchList ==
    /\ ret = <<>>
    /\ ret' = [value |-> fetch_list_page(arg)]
    /\ UNCHANGED <<arg, env, chunking, pipeline>>

SpecList == ListInit /\ [][FetchList]_vars

\* os.environ after load_dotenv: each of the two variables is set, set to
\* the empty string, or not set
Environs ==
    UNION {{[n \in S |-> IF n \in B THEN "" ELSE FullEnv[n]] : B \in SUBSET S} :
           S \in SUBSET DOMAIN FullEnv}

\* `not os.getenv(name)`
NotSet(name) == name \notin DOMAIN env \/ env[name] = ""

\* the script has been started
StartInit ==
    /\ pc = "start"
    /\ config = load_config
    /\ NoPass
    /\ NoCall
    /\ NoArg
    /\ env \in Environs

\* variant: main_loop is started whatever the environment holds
load_env_unchecked ==
    /\ pc = "start"
    /\ pc' = "run"
    /\ UNCHANGED <<file, seen_map, fi, items, adapter_out, sent_ids, new_items_sorted, sent,
                   fileAtStart, attempted, fetchFailed, old_ids, failedNow,
                   failedBefore, doneBefore>>
    /\ UNCHANGED apart

\* __main__: _load_env returns the token and the chat and main_loop is
\* started, or raises RuntimeError, which ends the script
load_env ==
    /\ pc = "start"
    /\ pc' = IF NotSet("BOT_TOKEN") \/ NotSet("CHAT_ID") THEN "failed" ELSE "run"
    /\ UNCHANGED <<file, seen_map, fi, items, adapter_out, sent_ids, new_items_sorted, sent,
                   fileAtStart, attempted, fetchFailed, old_ids, failedNow,
                   failedBefore, doneBefore>>
    /\ UNCHANGED apart

NextStart ==
    \/ load_env
    \/ Next

SpecStart == StartInit /\ [][NextStart]_vars

\* one call of load_config on any feeds.yaml
ConfigInit ==
    /\ PipelineInit
    /\ NoCall
    /\ EnvSet
    /\ arg \in SeqsUpTo(ConfigEntries, MaxEntries)
    /\ ret = <<>>

LoadConfig ==
    /\ ret = <<>>
    /\ ret' = [value |-> load_config_yaml(arg)]
    /\ UNCHANGED <<arg, env, chunking, pipeline>>

SpecConfig == ConfigInit /\ [][LoadConfig]_vars

\* one call of send_fulltext for any title, body and split_len
FulltextInit ==
    /\ PipelineInit
    /\ NoCall
    /\ EnvSet
    /\ arg \in [title : {<<"T">>, <<"&">>}, body : Bodies, split_len : SplitLens]
    /\ ret = <<>>

SendFulltext ==
    /\ ret = <<>>
    /\ ret' = [value |-> send_fulltext(Header(arg.title, <<"d">>, <<"u">>), arg.body, arg.split_len)]
    /\ UNCHANGED <<arg, env, chunking, pipeline>>

SpecFulltext == FulltextInit /\ [][SendFulltext]_vars

\* ---------------------------------------- the dispatch of one new item
\* One iteration of `for it in new_items_sorted` of run_once_multi, awaited
\* step by step: the choice between send_fulltext and send_item, then each
\* bot.send_message and each asyncio.sleep in turn. arg is the feed, the
\* item and what the network gives for it; ret is the coroutine's position
\* (at), its local variable link, the texts still to send (todo) and what
\* has been awaited so far (log).

\* it.link of the item dispatched
ItemLink == <<"u">>

\* what resolve_canonical returns for it.link: the link itself or another
Links == {ItemLink, <<"v">>}

\* _render_text with the default template
render_text(title, date_str, link) == Header(title, date_str, link)

SendInit ==
    /\ PipelineInit
    /\ NoCall
    /\ EnvSet
    /\ arg \in [resolve : BOOLEAN, fulltext : BOOLEAN, canonical : Links,
                title : {<<"T">>}, body : Bodies, split_len : SplitLens]
    /\ ret = <<>>

\* `if f.fulltext: send_fulltext(...) else: send_item(...)` up to the first
\* bot.send_message: only send_fulltext calls resolve_canonical
Dispatch ==
    /\ ret = <<>>
    /\ LET link == IF arg.fulltext /\ arg.resolve /\ ItemLink # <<>>
                   THEN arg.canonical ELSE ItemLink
           texts == IF arg.fulltext
                    THEN send_fulltext(Header(arg.title, <<"d">>, link),
                                       arg.body, arg.split_len)
                    ELSE <<render_text(arg.title, <<"d">>, ItemLink)>>
       IN  ret' = [at |-> "send", link |-> link, todo |-> texts, log |-> <<>>]
    /\ UNCHANGED <<arg, env, chunking, pipeline>>

\* variant: the next text is sent as soon as the last one is delivered
BotSendNoDelay(ok) ==
    /\ ret # <<>>
    /\ ret.at = "send"
    /\ LET m == Head(ret.todo)
           rest == Tail(ret.todo)
       IN  ret' = IF ok
                  THEN [ret EXCEPT !.log = Append(@, [op |-> "send", text |-> m]),
                                   !.todo = rest,
                                   !.at = IF rest = <<>> THEN "done" ELSE "send"]
                  ELSE [ret EXCEPT !.log = Append(@, [op |-> "raise", text |-> m]),
                                   !.at = "raised"]
    /\ UNCHANGED <<arg, env, chunking, pipeline>>

\* await bot.send_message(text=...): delivered (ok) or raising; an exception
\* leaves send_fulltext and is caught by run_once_multi
BotSend(ok) ==
    /\ ret # <<>>
    /\ ret.at = "send"
    /\ LET m == Head(ret.todo)
           rest == Tail(ret.todo)
       IN  ret' = IF ok
                  THEN [ret EXCEPT !.log = Append(@, [op |-> "send", text |-> m]),
                                   !.todo = rest,
                                   !.at = IF rest = <<>> THEN "done" ELSE "sleep"]
                  ELSE [ret EXCEPT !.log = Append(@, [op |-> "raise", text |-> m]),
                                   !.at = "raised"]
    /\ UNCHANGED <<arg, env, chunking, pipeline>>

\* await asyncio.sleep(0.2) at the head of `for i in range(start_idx, len(chunks))`
Sleep ==
    /\ ret # <<>>
    /\ ret.at = "sleep"
    /\ ret' = [ret EXCEPT !.log = Append(@, [op |-> "sleep", text |-> <<>>]),
                          !.at = "send"]
    /\ UNCHANGED <<arg, env, chunking, pipeline>>

NextSend ==
    \/ Dispatch
    \/ BotSend(TRUE)
    \/ BotSend(FALSE)
    \/ Sleep

SpecSend == SendInit /\ [][NextSend]_vars

\* ------------------------------------------------- one call of load_seen
LoadSeenInit ==
    /\ PipelineInit
    /\ NoCall
    /\ EnvSet
    /\ arg \in SeenDocuments
    /\ ret = <<>>

LoadSeen ==
    /\ ret = <<>>
    /\ ret' = [value |-> load_seen_document(arg)]
    /\ UNCHANGED <<arg, env, chunking, pipeline>>

SpecLoadSeen == LoadSeenInit /\ [][LoadSeen]_vars

\* ---------------------------------------- one call of extract_article_text
ExtractInit ==
    /\ PipelineInit
    /\ NoCall
    /\ EnvSet
    /\ arg \in ArticlePages
    /\ ret = <<>>

ExtractArticleText ==
    /\ ret = <<>>
    /\ ret' = [value |-> extract_article_text(arg)]
    /\ UNCHANGED <<arg, env, chunking, pipeline>>

SpecExtract == ExtractInit /\ [][ExtractArticleText]_vars

\* ------------------------------------------------------------- the claims
\* the feed of the batch that `sent`, `items` and `old_ids` describe
BatchFeed == feeds[IF pc = "feed" THEN fi - 1 ELSE fi]

\* the batch of feed fi - 1 is over
BatchOver == pc = "feed" /\ (fi - 1) \in attempted

Ids(s) == {s[i].id : i \in 1..Len(s)}

Count(s, x) == Cardinality({i \in 1..Len(s) : s[i] = x})

Keys == {feeds[i].key : i \in 1..Len(feeds)}

\* C1: in a pass no item is handed to the sink whose id seen.json held under
\* the feed's key when the pass began (the store the pass before saved), so
\* a second pass over the same fetched items sends nothing.
C1_StoredIdsNotSent ==
    \A i \in 1..Len(sent) : sent[i].id \notin StoredIds(fileAtStart, BatchFeed.key)

\* a second pass fetched only items the store already held and sent nothing
C1_Witness ==
    /\ BatchOver
    /\ items # <<>>
    /\ Ids(items) \subseteq StoredIds(fileAtStart, BatchFeed.key)
    /\ sent = <<>>

\* C2: a batch of the feed with key k, store set S and fetched ids F sends
\* exactly the items with id in F \ S, and seen.json then maps k to S \cup F.
C2_SendsNewAndPersistsUnion ==
    BatchOver =>
        /\ \A it \in Range(items) \cup Range(sent) :
              Count(sent, it) = IF it.id \in old_ids THEN 0 ELSE Count(items, it)
        /\ StoredIds(file, BatchFeed.key) = old_ids \cup Ids(items)

KeyOf(it) == parse_dt_key(it)

Ascending(s) ==
    \A i, j \in 1..Len(s) : i < j => ~KeyLess(KeyOf(s[j]), KeyOf(s[i]))

\* the orders in which an adapter can return the items of s
Orderings(s) ==
    {q \in [1..Len(s) -> Range(s)] : \A x \in Range(s) : Count(q, x) = Count(s, x)}

DistinctKeys(s) ==
    \A i, j \in 1..Len(s) : i # j => KeyOf(s[i]) # KeyOf(s[j])

SentInOrder == sent = SubSeq(new_items_sorted, 1, Len(sent))

\* the three listing entries of the example: dated 2024-01-02, 2024-01-01, undated
ExampleOrder ==
    Range(new_items_sorted) = ListPool /\ Len(new_items_sorted) = 3 =>
        new_items_sorted = << Item("c", "t3", "c", ""),
                              Item("b", "t2", "b", "2024-01-01"),
                              Item("a", "t1", "a", "2024-01-02") >>

\* C3 as stated: the new items are sent in ascending (date, link) order, and
\* that order is the same for every order in which the adapter returned them.
C3_SameOrderForEveryFetchOrder ==
    /\ SentInOrder
    /\ Ascending(new_items_sorted)
    /\ ExampleOrder
    /\ \A q \in Orderings(new_items_sorted) : sorted_by_dt_key(q) = new_items_sorted

\* C3 amended: the new items are sent in ascending (date, link) order, an
\* absent or unparsable date counting as the least; the order is the same
\* for every order of the adapter's result when no two new items have the
\* same (date, link), and items that have keep the adapter's order.
C3_AscendingByDateThenLink ==
    /\ SentInOrder
    /\ Ascending(new_items_sorted)
    /\ ExampleOrder
    /\ pc = "send" /\ sent = <<>> =>
          /\ new_items_sorted = sorted_by_dt_key(FilterNew(items, old_ids))
          /\ \A q \in Orderings(new_items_sorted) :
                LET r == sorted_by_dt_key(q)
                IN  /\ DistinctKeys(q) => r = new_items_sorted
                    /\ \A i, j \in 1..Len(q) :
                          i < j /\ KeyOf(q[i]) = KeyOf(q[j]) /\ q[i] # q[j] =>
                              \E m, n \in 1..Len(q) : m < n /\ r[m] = q[i] /\ r[n] = q[j]

\* the three example entries were fetched newest first and all sent
C3_Witness ==
    /\ BatchOver
    /\ items = << Item("a", "t1", "a", "2024-01-02"),
                  Item("b", "t2", "b", "2024-01-01"),
                  Item("c", "t3", "c", "") >>
    /\ Len(sent) = 3

\* C4: a send that raises still has its id added to the seen set, the rest
\* of the batch is still attempted in order, and the item is not dispatched
\* again in a later pass.
C4_FailedSendIsSeenForGood ==
    /\ SentInOrder
    /\ Ids(sent) \subseteq sent_ids
    /\ BatchOver /\ sent # <<>> =>
          /\ sent = new_items_sorted
          /\ Ids(sent) \subseteq Range(Get(seen_map, BatchFeed.key))
    /\ \A i \in 1..Len(sent) : <<BatchFeed.key, sent[i].id>> # failedBefore

\* C5: a feed whose fetch raises or returns nothing contributes no item,
\* nothing is sent or stored for it, and every feed after it is still
\* fetched in the same pass.
C5_FailedFetchIsSkipped ==
    /\ [](BatchOver /\ (fi - 1) \in fetchFailed =>
            /\ items = <<>>
            /\ sent = <<>>
            /\ new_items_sorted = <<>>)
    /\ [](pc = "feed" /\ fi > Len(feeds) => attempted = 1..Len(feeds))
    /\ [][fetchFailed' \notin {fetchFailed, {}} =>
            /\ file' = file
            /\ seen_map' = seen_map
            /\ pc' = "feed"
            /\ fi' = fi + 1]_vars

\* the first feed's fetch failed, the second feed was fetched and its items sent
C5_Witness ==
    /\ pc = "feed"
    /\ fi > Len(feeds)
    /\ fetchFailed = {1}
    /\ attempted = {1, 2}
    /\ sent # <<>>

\* C6: the poll loop has no terminal state: no error raised after the loop
\* started ends main_loop.
C6_NoTerminalState == pc # "dead"

\* C7: the persisted store only grows: an id seen.json held under a key when
\* a pass began is under that key in seen.json and in seen_map for the rest
\* of the pass (while no save is under way), also after a failed save_seen.
C7_StoreOnlyGrows ==
    pc \in {"feed", "send"} =>
        \A k \in Keys :
            /\ StoredIds(fileAtStart, k) \subseteq StoredIds(file, k)
            /\ StoredIds(fileAtStart, k) \subseteq Range(Get(seen_map, k))

\* C8: after the process was stopped in a pass and started again, no item of
\* a feed whose batch was over when it stopped is dispatched again.
C8_CompletedBatchNotResent ==
    \A i \in 1..Len(sent) : <<BatchFeed.key, sent[i].id>> # doneBefore

\* C9: for limit > 0 every segment chunk_text returns has at most limit characters.
C9_SegmentsWithinLimit ==
    called /\ limit > 0 => \A i \in 1..Len(chunks) : Len(chunks[i]) <= limit

\* a text of two paragraphs, one of them longer than the limit and sliced
C9_Witness ==
    /\ called
    /\ limit = 2
    /\ text = <<"a", "\n", "\n", "b", "a", "b">>
    /\ chunks = << <<"a">>, <<"b", "a">>, <<"b">> >>

\* C10: for limit <= 0 chunk_text returns one segment, the text itself.
C10_NoLimitOneSegment ==
    called /\ limit <= 0 => chunks = <<text>>

\* a text of two paragraphs and surrounding whitespace, returned whole
C10_Witness ==
    /\ called
    /\ limit = 0
    /\ text = <<" ", "a", "\n", "\n", "b", " ">>
    /\ chunks = <<text>>

\* the tags of the page that declare a canonical link with a target
CanonicalLinks(soup) ==
    SelectSeq(soup, LAMBDA t : t.name = "link" /\ has_attr(t, "rel")
                               /\ t.attrs.rel \in CanonicalRel /\ has_attr(t, "href"))

\* the tags of the page that declare an og:url with a target
OgUrlMetas(soup) ==
    SelectSeq(soup, LAMBDA t : t.name = "meta" /\ has_attr(t, "property")
                               /\ t.attrs.property \in OgUrlProperty /\ has_attr(t, "content"))

FinalUrl == IF arg.r.url # EmptyUrl THEN arg.r.url ELSE arg.url

\* C11: resolve_canonical returns the page's canonical-link target made
\* absolute against the final URL when the page has one, whatever og:url
\* says; else the og:url target; else the final URL; and the url it was
\* given when the fetch failed.
C11_CanonicalThenOgThenFinal ==
    ret # <<>> =>
        ret.value =
            IF ~arg.r.ok THEN arg.url
            ELSE IF CanonicalLinks(arg.r.soup) # <<>>
                 THEN urljoin(FinalUrl, Head(CanonicalLinks(arg.r.soup)).attrs.href)
            ELSE IF OgUrlMetas(arg.r.soup) # <<>>
                 THEN urljoin(FinalUrl, Head(OgUrlMetas(arg.r.soup)).attrs.content)
            ELSE FinalUrl

\* an entry the listing shows as a live broadcast
LiveBroadcast(li) ==
    \/ \E i \in 1..Len(li.title) : Lower(li.title[i]) = "live" \/ li.title[i] = BurmeseLive
    \/ LivePath(LinkOf(li))
    \/ li.promo

\* C12: fetch_list returns no entry that is a live broadcast: none whose
\* title has the word "live" in any letter case or its Burmese spelling,
\* whose link has the /live/ segment, or that carries the first-promo marker.
C12_NoLiveBroadcastReturned ==
    ret # <<>> =>
        \A i \in 1..Len(arg.lis) :
            LiveBroadcast(arg.lis[i]) =>
                \A j \in 1..Len(ret.value) :
                    ~(/\ ret.value[j].title = arg.lis[i].title
                      /\ ret.value[j].link = LinkOf(arg.lis[i]))

\* a JSON array of ids that is sorted and free of duplicates
SortedNoDup(v) == \A i, j \in 1..Len(v) : i < j => StrLess(v[i], v[j])

\* C13: every seen.json that save_seen wrote is a JSON object with a
\* top-level "feeds" mapping from feed key to a sorted, duplicate-free array
\* of ids, and load_seen returns exactly those ids for every key.
C13_FeedsMappingRoundTrip ==
    file.ok =>
        /\ DOMAIN file.data = {"feeds"}
        /\ \A k \in DOMAIN file.data["feeds"] : SortedNoDup(file.data["feeds"][k])
        /\ \A k \in Keys : StoredIds(file, k) = Range(Get(file.data["feeds"], k))

\* C14: when BOT_TOKEN or CHAT_ID is absent (or empty) at startup, the
\* script fails before the poll loop begins: no pass starts, no feed is
\* fetched, nothing is sent and seen.json is not written.
C14_NoPassWithoutCredentials ==
    NotSet("BOT_TOKEN") \/ NotSet("CHAT_ID") =>
        /\ pc \in {"start", "failed"}
        /\ attempted = {}
        /\ items = <<>>
        /\ sent = <<>>
        /\ file = Unreadable
        /\ seen_map = EmptyDict

\* the script was started with a token but no chat id and has ended with the error
C14_Witness ==
    /\ pc = "failed"
    /\ ~NotSet("BOT_TOKEN")
    /\ "CHAT_ID" \notin DOMAIN env

\* an entry that is not a mapping, has no url or has a non-numeric split_len
Malformed(ent) ==
    \/ ~ent.mapping
    \/ ent.url = ""
    \/ (ent.split_len # "" /\ ent.split_len \notin DOMAIN IntOf)

\* C15: for a config list with one malformed entry among well-formed ones,
\* load_config returns every well-formed entry, those before and those
\* after the malformed one.
C15_MalformedEntrySkippedAlone ==
    ret # <<>> /\ Cardinality({i \in 1..Len(arg) : Malformed(arg[i])}) = 1 =>
        \A i \in 1..Len(arg) :
            ~Malformed(arg[i]) => \E j \in 1..Len(ret.value) : ret.value[j] = FeedOf(arg[i])

\* the feeds before the current one have all been fetched, and the current
\* one too once its sends or its save are under way
FeedsInOrder ==
    /\ pc = "feed" => attempted = 1..(fi - 1) /\ Len(sent) = Len(new_items_sorted)
    /\ pc \in {"send", "saving"} => attempted = 1..fi
    /\ pc = "saving" => Len(sent) = Len(new_items_sorted)

\* a step that fetches, sends or writes does so for the current feed only,
\* and a send is the send of the next item of the batch
OneStepAtATime ==
    /\ attempted' # attempted /\ attempted' # {} =>
          pc = "feed" /\ attempted' = attempted \cup {fi} /\ fi' \in {fi, fi + 1}
    /\ sent' # sent /\ sent' # <<>> =>
          /\ pc = "send" /\ pc' = "send" /\ fi' = fi
          /\ Len(sent) < Len(new_items_sorted)
          /\ sent' = Append(sent, new_items_sorted[Len(sent) + 1])
          /\ file' = file /\ attempted' = attempted
    /\ file' # file =>
          /\ pc \in {"send", "saving"} /\ Len(sent) = Len(new_items_sorted)
          /\ sent' = sent /\ attempted' = attempted
    /\ fi' # fi => fi' = fi + 1 \/ (fi' = 1 /\ pc' \in {"sleep", "run"})

\* C16: within a pass the feeds are processed one after another in
\* configuration order: nothing is fetched, sent or written for a feed before
\* the fetch, sends and write of the feed before it are over, and within a
\* batch an item is sent only after the send of the item before it.
C16_FeedsAndSendsSequential ==
    []FeedsInOrder /\ [][OneStepAtATime]_vars

\* the second feed's second item has been sent after the first feed's batch
\* was sent and saved
C16_Witness ==
    /\ pc = "send"
    /\ fi = 2
    /\ Len(sent) = 2
    /\ StoredIds(file, feeds[1].key) # {}
    /\ StoredIds(fileAtStart, feeds[1].key) = {}

\* C17: a feed whose fetch returns no item with an id outside the store set
\* of its key has no side effect: nothing is sent, seen.json is not written
\* and the loop goes on to the next feed.
C17_NothingNewNoSideEffect ==
    /\ [](BatchOver /\ Ids(items) \subseteq old_ids =>
            sent = <<>> /\ new_items_sorted = <<>>)
    /\ [][attempted' # attempted /\ attempted' # {} /\ Ids(items') \subseteq old_ids' =>
            /\ file' = file
            /\ seen_map' = seen_map
            /\ sent' = <<>>
            /\ pc' = "feed"
            /\ fi' = fi + 1]_vars

\* the second feed returned only items its store set held: nothing was sent
\* and seen.json is the file the pass began with
C17_Witness ==
    /\ BatchOver
    /\ fi = 3
    /\ items # <<>>
    /\ Ids(items) \subseteq old_ids
    /\ sent = <<>>
    /\ file.ok
    /\ file = fileAtStart

\* ceil(n / d)
CeilDiv(n, d) == (n + d - 1) \div d

Min(a, b) == IF a <= b THEN a ELSE b

\* chunks holds, from index k on, the slices of p of width limit and nothing else of p
SlicedAt(p, k) ==
    /\ k + CeilDiv(Len(p), limit) - 1 <= Len(chunks)
    /\ \A i \in 1..CeilDiv(Len(p), limit) :
          chunks[k + i - 1] = SubSeq(p, (i - 1) * limit + 1, Min(i * limit, Len(p)))

\* C18 as stated: every paragraph of the text that is longer than limit is
\* emitted as ceil(len / limit) consecutive segments of length limit, the
\* last one possibly shorter, that concatenate to the paragraph.
C18_LongParagraphSliced ==
    called /\ limit > 0 =>
        \A j \in 1..Len(Split(text)) :
            LET p == Split(text)[j]
            IN  Len(p) > limit => \E k \in 1..Len(chunks) : SlicedAt(p, k)

\* C18 amended: a paragraph is stripped of leading and trailing whitespace
\* first; when what is left is longer than limit it is emitted as
\* ceil(len / limit) consecutive segments of length limit, the last one
\* possibly shorter, that concatenate to the stripped paragraph.
C18_LongStrippedParagraphSliced ==
    called /\ limit > 0 =>
        \A j \in 1..Len(Split(text)) :
            LET p == Strip(Split(text)[j])
            IN  Len(p) > limit => \E k \in 1..Len(chunks) : SlicedAt(p, k)

\* a short paragraph and a paragraph of three characters with spaces around
\* it, cut into two slices
C18_Witness ==
    /\ called
    /\ limit = 2
    /\ text = <<"b", "\n", "\n", " ", "a", "b", "a">>
    /\ chunks = << <<"b">>, <<"a", "b">>, <<"a">> >>

\* the segments joined, with seps[i] put between segment i and segment i + 1
RECURSIVE Joined(_, _)
Joined(segs, seps) ==
    IF segs = <<>> THEN <<>>
    ELSE IF Len(segs) = 1 THEN segs[1]
    ELSE segs[1] \o seps[1] \o Joined(Tail(segs), Tail(seps))

\* the segments give the text back when the paragraph separator is put
\* between those that end and begin at a paragraph boundary
Reconstructs ==
    \E seps \in [1..(Len(chunks) - 1) -> {<<>>, <<"\n", "\n">>}] :
        Joined(chunks, seps) = text

CleanParagraphs(s) ==
    \A j \in 1..Len(Split(s)) : Split(s)[j] # <<>> /\ Strip(Split(s)[j]) = Split(s)[j]

C20_MessagesWithinSplitLen ==
    ret # <<>> /\ arg.split_len > 0 =>
        \A i \in 1..Len(ret.value) : Len(ret.value[i]) <= arg.split_len

\* s begins with p
StartsWith(s, p) == Len(p) <= Len(s) /\ SubSeq(s, 1, Len(p)) = p

\* C21: for a feed with resolve = true, with or without fulltext, the link
\* in the message sent for a new item is what resolve_canonical returned for
\* the item's link.
C21_ResolvedLinkIsSent ==
    ret # <<>> /\ arg.resolve =>
        /\ ret.link = arg.canonical
        /\ ret.log # <<>> =>
               StartsWith(ret.log[1].text, Header(arg.title, <<"d">>, arg.canonical))

\* C22: a seen.json holding a bare top-level array of ids is loaded as one
\* bucket under the key "default" holding exactly those ids.
C22_LegacyArrayIsDefaultBucket ==
    ret # <<>> /\ arg.t = "list" =>
        ret.value = [k \in {"default"} |-> arg.ids]

\* C23: the feeds load_config returns have pairwise distinct keys, whatever
\* the configuration document: entries repeating a key, or falling back to
\* the same derived key, included.
C23_ConfiguredKeysDistinct ==
    ret # <<>> =>
        \A i, j \in 1..Len(ret.value) : i # j => ret.value[i].key # ret.value[j].key

\* the first five entries of what the adapter returned
FirstFive == {adapter_out[i] : i \in 1..Len(adapter_out) \cap 1..5}

\* C24: for a feed of type eleven only the first 5 entries of the adapter's
\* result are considered: at most 5 items are sent and at most 5 ids are
\* added to the store in a pass, and an entry beyond the fifth is neither
\* sent nor marked seen.
C24_ElevenFirstFiveOnly ==
    attempted # {} /\ BatchFeed.type = "eleven" =>
        LET added == StoredIds(file, BatchFeed.key) \ StoredIds(fileAtStart, BatchFeed.key)
        IN  /\ Len(sent) <= 5
            /\ Range(sent) \subseteq FirstFive
            /\ Cardinality(added) <= 5
            /\ added \subseteq {it.id : it \in FirstFive}
            /\ \A i \in 6..Len(adapter_out) :
                  /\ adapter_out[i] \notin Range(sent)
                  /\ adapter_out[i].id \notin added

\* the page listed six new articles: five were sent and saved
C24_Witness ==
    /\ BatchOver
    /\ BatchFeed.type = "eleven"
    /\ Len(adapter_out) = 6
    /\ Len(sent) = 5
    /\ StoredIds(file, "eleven") = {"e1", "e2", "e3", "e4", "e5"}
    /\ StoredIds(fileAtStart, "eleven") = {}

\* the positions in the log of the calls of bot.send_message, delivered or raising
SendAt == {i \in 1..Len(ret.log) : ret.log[i].op \in {"send", "raise"}}

\* C25: in send_fulltext every message after the first one is preceded by
\* the inter-message delay: no two sends for one item follow each other
\* without a sleep between them, and the first message is sent at once.
C25_DelayBeforeEachContinuation ==
    ret # <<>> =>
        /\ ret.log # <<>> => 1 \in SendAt
        /\ \A i \in SendAt : i > 1 => ret.log[i - 1].op = "sleep"

\* a header and two continuation chunks were sent, each chunk after a sleep
C25_Witness ==
    /\ ret # <<>>
    /\ arg.fulltext
    /\ ret.at = "done"
    /\ Cardinality(SendAt) = 3
    /\ Len(ret.log) = 5

\* the segments of the item of arg as the claim lists them: the header,
\* joined with the first chunk when that fits in split_len, then every
\* remaining chunk; the header alone for an empty body
Segments ==
    LET header == Header(arg.title, <<"d">>, ret.link)
        cs == chunk_text(arg.body, arg.split_len)
        joined == header \o <<"\n", "\n">> \o escape(cs[1])
        fits == cs # <<>> /\ Len(joined) <= arg.split_len
        from == IF fits THEN 2 ELSE 1
    IN  IF arg.body = <<>> THEN <<header>>
        ELSE <<IF fits THEN joined ELSE header>> \o
             [i \in 1..(Len(cs) - from + 1) |-> escape(cs[from + i - 1])]

\* the texts given to bot.send_message so far, in order
Given == [k \in 1..Cardinality(SendAt) |->
             ret.log[CHOOSE i \in SendAt : Cardinality({j \in SendAt : j < i}) = k - 1].text]

\* C29: for one item send_fulltext sends the header in the first message
\* (joined with the first chunk when that fits in split_len, alone
\* otherwise), then every remaining chunk once, in chunk order; after a
\* send that raises nothing more of the item is sent; with an empty body
\* exactly one message, the header, is sent.
C29_HeaderThenChunksInOrder ==
    ret # <<>> /\ arg.fulltext =>
        /\ Len(Given) <= Len(Segments)
        /\ \A k \in 1..Len(Given) : Given[k] = Segments[k]
        /\ \A i \in 1..Len(ret.log) : ret.log[i].op = "raise" => i = Len(ret.log)
        /\ ret.at = "done" => Len(Given) = Len(Segments)
        /\ ret.at \in {"send", "sleep"} => Len(Given) < Len(Segments)
        /\ arg.body = <<>> /\ ret.at = "done" =>
               Given = <<Header(arg.title, <<"d">>, ret.link)>>

\* the header went out joined with the first paragraph, the second
\* paragraph followed in a message of its own
C29_Witness ==
    /\ ret # <<>>
    /\ arg.fulltext
    /\ arg.body = LongBody
    /\ arg.split_len = 24
    /\ ret.at = "done"
    /\ Len(Given) = 2
    /\ Len(Given[1]) = 22
    /\ Given[2] = [i \in 1..22 |-> "a"]

\* the second of three sends raised: the third text was never sent
C29_WitnessRaise ==
    /\ ret # <<>>
    /\ arg.fulltext
    /\ ret.at = "raised"
    /\ Len(Given) = 2
    /\ Len(Segments) = 3

\* C26: on a successful fetch extract_article_text returns the non-empty
\* paragraph and list-item texts of the main node in document order, list
\* items prefixed with a bullet, with a blank-line separator between each
\* two consecutive entries.
C26_EntriesSeparatedByBlankLine ==
    ret # <<>> /\ arg.ok /\ arg.main =>
        ret.value = Join(Parts(arg.els), <<"\n", "\n">>)

\* C27: within one feed batch no id is dispatched more than once, even when
\* the adapter's result contains several items with the same id.
C27_NoIdTwiceInBatch ==
    \A i, j \in 1..Len(sent) : i # j => sent[i].id # sent[j].id

\* the keys of the store loaded at pass start other than the key of the
\* batch being saved
OtherKeys == DOMAIN load_seen(fileAtStart) \ {feeds[fi].key}

\* C28: dispatching and saving a batch for key k changes only the entry of
\* k in the store: for every other key of the store loaded at pass start,
\* the ids persisted after the save are the ids persisted before it. The
\* save is the open of seen.json, which truncates it, then the dump of
\* seen_map: before the open the file holds for every other key what
\* seen_map holds, and after the dump it holds it again.
C28_SaveChangesOnlyOwnKey ==
    /\ [][pc = "send" /\ pc' = "saving" =>
              \A k \in OtherKeys : StoredIds(file, k) = Range(Get(seen_map', k))]_vars
    /\ [][pc = "saving" /\ pc' # "saving" =>
              \A k \in OtherKeys : StoredIds(file', k) = Range(Get(seen_map, k))]_vars

\* s without its whitespace
RECURSIVE Solid(_)
Solid(s) ==
    IF s = <<>> THEN <<>>
    ELSE IF Head(s) \in Whitespace THEN Solid(Tail(s))
    ELSE <<Head(s)>> \o Solid(Tail(s))

\* the segments one after another
RECURSIVE Flat(_)
Flat(segs) == IF segs = <<>> THEN <<>> ELSE Head(segs) \o Flat(Tail(segs))

\* the paragraphs of the text appear in the segments in their order, each
\* once: the segments carry the text's characters other than whitespace,
\* in order, and a paragraph that fits in a segment is a paragraph of one
\* segment
ParagraphsKept ==
    /\ Solid(Flat(chunks)) = Solid(text)
    /\ \A j \in 1..Len(Split(text)) :
          LET p == Strip(Split(text)[j])
          IN  p # <<>> /\ (limit <= 0 \/ Len(p) <= limit) =>
                  \E i \in 1..Len(chunks) :
                      p \in {Strip(q) : q \in Range(Split(chunks[i]))}

NonEmptySegments ==
    /\ chunks # <<>>
    /\ \A i \in 1..Len(chunks) : chunks[i] # <<>>
    /\ ParagraphsKept

\* C30 as stated: for every non-empty text and every limit chunk_text
\* returns a non-empty list without an empty segment, and the paragraphs of
\* the text appear in the segments in their original order, each exactly once.
C30_NonEmptySegmentsInOrder ==
    called /\ text # <<>> => NonEmptySegments

\* a text longer than limit > 0 that holds whitespace only
BlankOverLimit == limit > 0 /\ Len(text) > limit /\ Strip(text) = <<>>

\* C30 amended: the same for every non-empty text except one longer than
\* limit > 0 that holds whitespace only, for which chunk_text returns the
\* empty list.
C30_NonEmptySegmentsUnlessBlank ==
    called /\ text # <<>> =>
        IF BlankOverLimit THEN chunks = <<>> ELSE NonEmptySegments

\* two paragraphs, each in a segment of its own
C30_Witness ==
    /\ called
    /\ limit = 2
    /\ text = <<" ", "a", "\n", "\n", "b", "b">>
    /\ chunks = << <<"a">>, <<"b", "b">> >>

====
